---- MODULE Spec2Model ----
(***************************************************************************)
(* chatty: the scanner (class Scan), the recursive-descent parser           *)
(* (parseModule and the routines it calls) and the C++ generator of         *)
(* src/chatty/__init__.py, as a machine that runs one source statement      *)
(* group per step.  A text is a sequence of one-character strings.  The     *)
(* Python call stack is the variable stk: a sequence of frames, the running *)
(* function first; a frame holds the function's name, its position in the   *)
(* function's body, its literal argument, a boolean local and (for the      *)
(* properties) the cursor at which its loop condition was evaluated last.   *)
(***************************************************************************)
EXTENDS Integers, Sequences, FiniteSets, TLC

VARIABLES
    _src,      \* Scan._src
    _off,      \* Scan._off
    _start,    \* Scan._start
    _save,     \* Scan._save
    stk,       \* the call stack, running frame first
    retB,      \* the boolean a call returned last
    tok,       \* the Tok a call returned last
    err,       \* the ScanError raised, NoErr while none was
    module,    \* parseModule's local module
    iface,     \* parseIface's local iface
    f,         \* parseFunc's local f
    argName,   \* parseFunc's local argName
    out,       \* what main printed to outFile
    given      \* how the input was drawn (read by the properties only)

scan == <<_off, _start, _save>>
ast  == <<module, iface, f, argName>>
vars == <<_src, _off, _start, _save, stk, retB, tok, err, module, iface, f,
          argName, out, given>>

(***************************************************************************)
(* Characters.                                                             *)
(***************************************************************************)
Nul == "NUL"
Letters == {"a", "b", "c", "d", "e", "f", "g", "h", "i", "j", "k", "l", "m",
            "n", "o", "p", "q", "r", "s", "t", "u", "v", "w", "x", "y", "z",
            "I", "J", "M"}
Digits == {"0", "1", "2", "3", "4", "5", "6", "7", "8", "9"}
isspace(c) == c \in {" ", "\n", "\t"}
isalpha(c) == c \in Letters
isalnum(c) == c \in Letters \cup Digits

BRAKETS == [c \in {"{", "[", "("} |->
              IF c = "{" THEN "}" ELSE IF c = "[" THEN "]" ELSE ")"]

(***************************************************************************)
(* class Scan: the methods without a loop, as functions of the fields       *)
(* they read.                                                              *)
(***************************************************************************)
eof(o) == o >= Len(_src)

curr(o) == IF eof(o) THEN Nul ELSE _src[o + 1]

nextStuck(o) == o

\* Scan.next: the offset after the call
next(o) == IF eof(o) THEN o ELSE o + 1

startswith(o, s) ==
    /\ o + Len(s) <= Len(_src)
    /\ \A i \in 1..Len(s) : _src[o + i] = s[i]

\* Scan.skipStr: what it returns, and the offset after the call
skipStr(s, o) ==
    IF startswith(o, s)
    THEN [ok |-> TRUE, off |-> o + Len(s)]
    ELSE [ok |-> FALSE, off |-> o]

\* Scan.save: the save stack after the call
save(sv, o) == Append(sv, o)

restoreKeep(sv, o) == [off |-> o, save |-> SubSeq(sv, 1, Len(sv) - 1)]

\* Scan.restore: the offset and the save stack after the call
restore(sv, o) == [off |-> sv[Len(sv)], save |-> SubSeq(sv, 1, Len(sv) - 1)]

\* Scan.isStr: what it returns, and the offset and save stack after the call
isStr(s, o, sv) ==
    LET r  == skipStr(s, o)
        rs == restore(save(sv, o), r.off)
    IN  [ok |-> r.ok, off |-> rs.off, save |-> rs.save]

\* Scan.end: the Tok from _start to the cursor
end(st, o) == [start |-> st, end |-> o,
               text |-> IF st < o THEN SubSeq(_src, st + 1, o) ELSE <<>>]

(***************************************************************************)
(* Frames, calls and returns.                                              *)
(***************************************************************************)
NoErr == [where |-> -1, what |-> "none", lit |-> <<>>]
NoTok == [start |-> 0, end |-> 0, text |-> <<>>]
NoFunc == [name |-> <<>>, args |-> <<>>, res |-> <<>>]
NoIface == [name |-> <<>>, funcs |-> <<>>]
NoModule == [name |-> <<>>, includes |-> <<>>, ifaces |-> <<>>]

Frame(fn, arg) == [fn |-> fn, pc |-> 0, arg |-> arg, flag |-> FALSE, at |-> -1]
Top == Head(stk)
At(fn, pc) == stk # <<>> /\ Top.fn = fn /\ Top.pc = pc
Goto(pc) == stk' = <<[Top EXCEPT !.pc = pc]>> \o Tail(stk)
CallThen(callee, pc) == stk' = <<callee, [Top EXCEPT !.pc = pc]>> \o Tail(stk)
Return == stk' = Tail(stk)
\* the running frame at position pc, about to run (again) the loop whose
\* condition it has just evaluated at the cursor; at is read by the properties
\* only
Mark(pc) == [Top EXCEPT !.pc = pc, !.at = _off]
Again == stk' = <<Mark(Top.pc)>> \o Tail(stk)
CallThenAgain(callee, pc) == stk' = <<callee, Mark(pc)>> \o Tail(stk)
\* Scan.error: the ScanError leaves every frame, main's included
error(where, what, lit) ==
    /\ err' = [where |-> where, what |-> what, lit |-> lit]
    /\ stk' = <<>>

(***************************************************************************)
(* class Scan: the methods with a loop or a call of one.                    *)
(***************************************************************************)
skipWhitespace ==
    /\ At("skipWhitespace", 0)
    /\ IF ~eof(_off) /\ isspace(curr(_off))
       THEN /\ _off' = next(_off)
            /\ stk' = <<[Mark(0) EXCEPT !.flag = TRUE]>> \o Tail(stk)
            /\ UNCHANGED retB
       ELSE /\ retB' = Top.flag
            /\ Return
            /\ UNCHANGED _off
    /\ UNCHANGED <<_src, _start, _save, tok, err, ast, out, given>>

skipSeparator ==
    /\ stk # <<>> /\ Top.fn = "skipSeparator"
    /\ CASE Top.pc = 0 ->
              /\ _save' = save(_save, _off)
              /\ CallThen(Frame("skipWhitespace", <<>>), 1)
              /\ UNCHANGED <<_off, retB>>
         [] Top.pc = 1 ->
              LET r == skipStr(Top.arg, _off) IN
              IF r.ok
              THEN /\ _off' = r.off
                   /\ CallThen(Frame("skipWhitespace", <<>>), 2)
                   /\ UNCHANGED <<_save, retB>>
              ELSE /\ _off' = restore(_save, r.off).off
                   /\ _save' = restore(_save, r.off).save
                   /\ retB' = FALSE
                   /\ Return
         [] Top.pc = 2 ->
              /\ retB' = TRUE
              /\ Return
              /\ UNCHANGED <<_off, _save>>
    /\ UNCHANGED <<_src, _start, tok, err, ast, out, given>>

isSeparator ==
    /\ stk # <<>> /\ Top.fn = "isSeparator"
    /\ CASE Top.pc = 0 ->
              /\ _save' = save(_save, _off)
              /\ CallThen(Frame("skipWhitespace", <<>>), 1)
              /\ UNCHANGED <<_off, retB>>
         [] Top.pc = 1 ->
              LET r == skipStr(Top.arg, _off) IN
              IF r.ok
              THEN /\ _off' = r.off
                   /\ CallThen(Frame("skipWhitespace", <<>>), 2)
                   /\ UNCHANGED <<_save, retB>>
              ELSE /\ _off' = restore(_save, r.off).off
                   /\ _save' = restore(_save, r.off).save
                   /\ retB' = FALSE
                   /\ Return
         [] Top.pc = 2 ->
              /\ _off' = restore(_save, _off).off
              /\ _save' = restore(_save, _off).save
              /\ retB' = TRUE
              /\ Return
    /\ UNCHANGED <<_src, _start, tok, err, ast, out, given>>

expectSeparator ==
    /\ stk # <<>> /\ Top.fn = "expectSeparator"
    /\ CASE Top.pc = 0 ->
              /\ CallThen(Frame("skipSeparator", Top.arg), 1)
              /\ UNCHANGED err
         [] Top.pc = 1 ->
              IF ~retB
              THEN error(_off, "Expected separator", Top.arg)
              ELSE Return /\ UNCHANGED err
    /\ UNCHANGED <<_src, scan, retB, tok, ast, out, given>>

skipKeyword ==
    /\ stk # <<>> /\ Top.fn = "skipKeyword"
    /\ CASE Top.pc = 0 ->
              /\ _save' = save(_save, _off)
              /\ CallThen(Frame("skipWhitespace", <<>>), 1)
              /\ UNCHANGED <<_off, retB>>
         [] Top.pc = 1 ->
              LET r == skipStr(Top.arg, _off) IN
              IF r.ok /\ ~isalnum(curr(r.off))
              THEN /\ _off' = r.off
                   /\ CallThen(Frame("skipWhitespace", <<>>), 2)
                   /\ UNCHANGED <<_save, retB>>
              ELSE /\ _off' = restore(_save, r.off).off
                   /\ _save' = restore(_save, r.off).save
                   /\ retB' = FALSE
                   /\ Return
         [] Top.pc = 2 ->
              /\ retB' = TRUE
              /\ Return
              /\ UNCHANGED <<_off, _save>>
    /\ UNCHANGED <<_src, _start, tok, err, ast, out, given>>

isKeyword ==
    /\ stk # <<>> /\ Top.fn = "isKeyword"
    /\ CASE Top.pc = 0 ->
              /\ _save' = save(_save, _off)
              /\ CallThen(Frame("skipWhitespace", <<>>), 1)
              /\ UNCHANGED <<_off, retB>>
         [] Top.pc = 1 ->
              LET r == skipStr(Top.arg, _off) IN
              /\ _off' = restore(_save, r.off).off
              /\ _save' = restore(_save, r.off).save
              /\ retB' = (r.ok /\ ~isalnum(curr(r.off)))
              /\ Return
    /\ UNCHANGED <<_src, _start, tok, err, ast, out, given>>

expectKeyword ==
    /\ stk # <<>> /\ Top.fn = "expectKeyword"
    /\ CASE Top.pc = 0 ->
              /\ CallThen(Frame("skipKeyword", Top.arg), 1)
              /\ UNCHANGED err
         [] Top.pc = 1 ->
              IF ~retB
              THEN error(_off, "Expected keyword", Top.arg)
              ELSE Return /\ UNCHANGED err
    /\ UNCHANGED <<_src, scan, retB, tok, ast, out, given>>

(***************************************************************************)
(* The parser.                                                             *)
(***************************************************************************)
nextIdent ==
    /\ At("nextIdent", 0)
    /\ IF isalnum(curr(_off)) \/ curr(_off) = "_"
       THEN _off' = next(_off) /\ Again
       ELSE Return /\ UNCHANGED _off
    /\ UNCHANGED <<_src, _start, _save, retB, tok, err, ast, out, given>>

skipNamespaceSep(o) == skipStr(<<":", ":">>, o)

parseIdent ==
    /\ stk # <<>> /\ Top.fn = "parseIdent"
    /\ CASE Top.pc = 0 ->
              /\ CallThen(Frame("skipWhitespace", <<>>), 1)
              /\ UNCHANGED <<_off, _start, tok, err>>
         [] Top.pc = 1 ->
              IF ~isalpha(curr(_off))
              THEN /\ error(_off, "Expected identifier", <<>>)
                   /\ UNCHANGED <<_off, _start, tok>>
              ELSE /\ _start' = _off
                   /\ Goto(2)
                   /\ UNCHANGED <<_off, tok, err>>
         [] Top.pc = 2 ->
              IF isalnum(curr(_off)) \/ curr(_off) = "_"
              THEN /\ _off' = next(_off)
                   /\ Again
                   /\ UNCHANGED <<_start, tok, err>>
              ELSE /\ tok' = end(_start, _off)
                   /\ CallThen(Frame("skipWhitespace", <<>>), 3)
                   /\ UNCHANGED <<_off, _start, err>>
         [] Top.pc = 3 ->
              /\ Return
              /\ UNCHANGED <<_off, _start, tok, err>>
    /\ UNCHANGED <<_src, _save, retB, ast, out, given>>

parseNamespacedIdent ==
    /\ stk # <<>> /\ Top.fn = "parseNamespacedIdent"
    /\ CASE Top.pc = 0 ->
              /\ _start' = _off
              /\ CallThen(Frame("nextIdent", <<>>), 1)
              /\ UNCHANGED <<_off, tok>>
         [] Top.pc = 1 ->
              LET r == skipNamespaceSep(_off) IN
              IF r.ok
              THEN /\ _off' = r.off
                   /\ CallThenAgain(Frame("nextIdent", <<>>), 1)
                   /\ UNCHANGED <<_start, tok>>
              ELSE /\ tok' = end(_start, _off)
                   /\ Return
                   /\ UNCHANGED <<_off, _start>>
    /\ UNCHANGED <<_src, _save, retB, err, ast, out, given>>

nextBrackets ==
    /\ stk # <<>> /\ Top.fn = "nextBrackets"
    /\ CASE Top.pc = 0 ->
              /\ CallThen(Frame("expectSeparator", Top.arg), 1)
              /\ UNCHANGED _off
         [] Top.pc = 1 ->
              IF eof(_off)
              THEN Return /\ UNCHANGED _off
              ELSE /\ CallThenAgain(Frame("skipSeparator", <<BRAKETS[Top.arg[1]]>>), 2)
                   /\ UNCHANGED _off
         [] Top.pc = 2 ->
              IF retB
              THEN Return /\ UNCHANGED _off
              ELSE _off' = next(_off) /\ Goto(1)
    /\ UNCHANGED <<_src, _start, _save, retB, tok, err, ast, out, given>>

parseType ==
    /\ stk # <<>> /\ Top.fn = "parseType"
    /\ CASE Top.pc = 0 ->
              /\ _start' = _off
              /\ Goto(1)
              /\ UNCHANGED <<_off, tok>>
         [] Top.pc = 1 ->
              IF eof(_off)
              THEN /\ tok' = end(_start, _off)
                   /\ Return
                   /\ UNCHANGED <<_off, _start>>
              ELSE /\ CallThenAgain(Frame("isSeparator", <<",">>), 2)
                   /\ UNCHANGED <<_off, _start, tok>>
         [] Top.pc = 2 ->
              IF retB
              THEN /\ tok' = end(_start, _off)
                   /\ Return
                   /\ UNCHANGED <<_off, _start>>
              ELSE /\ CallThen(Frame("isSeparator", <<")">>), 3)
                   /\ UNCHANGED <<_off, _start, tok>>
         [] Top.pc = 3 ->
              IF retB
              THEN /\ tok' = end(_start, _off)
                   /\ Return
                   /\ UNCHANGED <<_off, _start>>
              ELSE IF curr(_off) \in DOMAIN BRAKETS
              THEN /\ CallThen(Frame("nextBrackets", <<curr(_off)>>), 1)
                   /\ UNCHANGED <<_off, _start, tok>>
              ELSE /\ _off' = next(_off)
                   /\ Goto(1)
                   /\ UNCHANGED <<_start, tok>>
    /\ UNCHANGED <<_src, _save, retB, err, ast, out, given>>

parseQuotes ==
    /\ stk # <<>> /\ Top.fn = "parseQuotes"
    /\ CASE Top.pc = 0 ->
              IF curr(_off) \notin {"\"", "'"}
              THEN /\ error(_off, "Expected quotes", <<>>)
                   /\ UNCHANGED <<_off, _start, tok>>
              ELSE /\ _start' = _off
                   /\ stk' = <<[Top EXCEPT !.pc = 1, !.arg = <<curr(_off)>>]>>
                                 \o Tail(stk)
                   /\ UNCHANGED <<_off, tok, err>>
         [] Top.pc = 1 ->
              IF curr(_off) = Top.arg[1]
              THEN /\ _off' = next(_off)
                   /\ Again
                   /\ UNCHANGED <<_start, tok, err>>
              ELSE /\ tok' = end(_start, _off)
                   /\ Return
                   /\ UNCHANGED <<_off, _start, err>>
    /\ UNCHANGED <<_src, _save, retB, ast, out, given>>

escapesNever(c, raw) == FALSE

\* parseString, line 291: the character opens an escape pair
escapes(c, raw) == c = "\\" /\ ~raw

parseString ==
    /\ stk # <<>> /\ Top.fn = "parseString"
    /\ CASE Top.pc = 0 ->
              /\ CallThen(Frame("parseQuotes", <<>>), 1)
              /\ UNCHANGED <<scan, tok, err>>
         [] Top.pc = 1 ->
              /\ _start' = _off
              /\ stk' = <<[Top EXCEPT !.pc = 2, !.arg = tok.text,
                                      !.flag = Len(tok.text) > 1]>> \o Tail(stk)
              /\ UNCHANGED <<_off, _save, tok, err>>
         [] Top.pc = 2 ->
              LET is == isStr(Top.arg, _off, _save) IN
              IF eof(_off) \/ is.ok
              THEN /\ tok' = end(_start, is.off)
                   /\ _off' = skipStr(Top.arg, is.off).off
                   /\ _save' = is.save
                   /\ Return
                   /\ UNCHANGED <<_start, err>>
              ELSE LET esc == escapes(curr(is.off), Top.flag)
                       o1  == IF esc THEN next(is.off) ELSE is.off
                   IN  IF esc /\ eof(o1)
                       THEN /\ error(o1, "Expected escape sequence", <<>>)
                            /\ _off' = o1
                            /\ _save' = is.save
                            /\ UNCHANGED <<_start, tok>>
                       ELSE /\ _off' = next(o1)
                            /\ _save' = is.save
                            /\ Again
                            /\ UNCHANGED <<_start, tok, err>>
    /\ UNCHANGED <<_src, retB, ast, out, given>>

appendAlways(d, v) == Append(d, v)

\* d[v.name] = v on a dict: a key it holds keeps its place and takes the
\* new value, a new key goes last
dictSet(d, v) ==
    IF \E i \in DOMAIN d : d[i].name = v.name
    THEN [i \in DOMAIN d |-> IF d[i].name = v.name THEN v ELSE d[i]]
    ELSE Append(d, v)

parseFunc ==
    /\ stk # <<>> /\ Top.fn = "parseFunc"
    /\ CASE Top.pc = 0 ->
              /\ f' = NoFunc
              /\ CallThen(Frame("parseIdent", <<>>), 1)
              /\ UNCHANGED argName
         [] Top.pc = 1 ->
              /\ f' = [f EXCEPT !.name = tok.text]
              /\ CallThen(Frame("expectSeparator", <<"(">>), 2)
              /\ UNCHANGED argName
         [] Top.pc = 2 ->
              /\ f' = [f EXCEPT !.args = <<>>]
              /\ Goto(3)
              /\ UNCHANGED argName
         [] Top.pc = 3 ->
              /\ CallThenAgain(Frame("skipSeparator", <<")">>), 4)
              /\ UNCHANGED <<f, argName>>
         [] Top.pc = 4 ->
              /\ IF retB
                 THEN CallThen(Frame("expectSeparator", <<"-", ">">>), 8)
                 ELSE CallThen(Frame("parseIdent", <<>>), 5)
              /\ UNCHANGED <<f, argName>>
         [] Top.pc = 5 ->
              /\ argName' = tok.text
              /\ CallThen(Frame("expectSeparator", <<":">>), 6)
              /\ UNCHANGED f
         [] Top.pc = 6 ->
              /\ CallThen(Frame("parseType", <<>>), 7)
              /\ UNCHANGED <<f, argName>>
         [] Top.pc = 7 ->
              /\ f' = [f EXCEPT !.args = Append(@, <<tok.text, argName>>)]
              /\ CallThen(Frame("skipSeparator", <<",">>), 3)
              /\ UNCHANGED argName
         [] Top.pc = 8 ->
              /\ CallThen(Frame("parseType", <<>>), 9)
              /\ UNCHANGED <<f, argName>>
         [] Top.pc = 9 ->
              /\ f' = [f EXCEPT !.res = tok.text]
              /\ Return
              /\ UNCHANGED argName
    /\ UNCHANGED <<_src, scan, retB, tok, err, module, iface, out, given>>

parseIface ==
    /\ stk # <<>> /\ Top.fn = "parseIface"
    /\ CASE Top.pc = 0 ->
              /\ iface' = NoIface
              /\ CallThen(Frame("parseIdent", <<>>), 1)
         [] Top.pc = 1 ->
              /\ iface' = [iface EXCEPT !.name = tok.text]
              /\ CallThen(Frame("expectSeparator", <<"{">>), 2)
         [] Top.pc = 2 ->
              /\ iface' = [iface EXCEPT !.funcs = <<>>]
              /\ Goto(3)
         [] Top.pc = 3 ->
              /\ CallThenAgain(Frame("skipSeparator", <<"}">>), 4)
              /\ UNCHANGED iface
         [] Top.pc = 4 ->
              /\ IF retB THEN Return ELSE CallThen(Frame("parseFunc", <<>>), 5)
              /\ UNCHANGED iface
         [] Top.pc = 5 ->
              /\ iface' = [iface EXCEPT !.funcs = dictSet(@, f)]
              /\ CallThen(Frame("expectSeparator", <<",">>), 3)
    /\ UNCHANGED <<_src, scan, retB, tok, err, module, f, argName, out, given>>

parseModule ==
    /\ stk # <<>> /\ Top.fn = "parseModule"
    /\ CASE Top.pc = 0 ->
              /\ module' = NoModule
              /\ CallThen(Frame("expectKeyword",
                                <<"m", "o", "d", "u", "l", "e">>), 1)
         [] Top.pc = 1 ->
              /\ CallThen(Frame("parseNamespacedIdent", <<>>), 2)
              /\ UNCHANGED module
         [] Top.pc = 2 ->
              /\ module' = [module EXCEPT !.name = tok.text, !.includes = <<>>]
              /\ Goto(3)
         [] Top.pc = 3 ->
              /\ CallThenAgain(Frame("skipKeyword",
                                <<"i", "n", "c", "l", "u", "d", "e">>), 4)
              /\ UNCHANGED module
         [] Top.pc = 4 ->
              IF retB
              THEN /\ CallThen(Frame("parseString", <<>>), 5)
                   /\ UNCHANGED module
              ELSE /\ module' = [module EXCEPT !.ifaces = <<>>]
                   /\ stk' = <<[Top EXCEPT !.pc = 6, !.at = -1]>> \o Tail(stk)
         [] Top.pc = 5 ->
              /\ module' = [module EXCEPT !.includes = Append(@, tok.text)]
              /\ Goto(3)
         [] Top.pc = 6 ->
              /\ IF eof(_off) THEN Return
                 ELSE CallThenAgain(Frame("parseIface", <<>>), 7)
              /\ UNCHANGED module
         [] Top.pc = 7 ->
              /\ module' = [module EXCEPT !.ifaces = dictSet(@, iface)]
              /\ Goto(6)
    /\ UNCHANGED <<_src, scan, retB, tok, err, iface, f, argName, out, given>>

(***************************************************************************)
(* The C++ generator.  The emitted text is a sequence of fragments, one per *)
(* template; a fragment records the template (kind) and the values the      *)
(* template interpolates.  "\n".join of a list of texts is their            *)
(* concatenation in list order.                                            *)
(***************************************************************************)
RECURSIVE join(_)
join(texts) == IF texts = <<>> THEN <<>> ELSE Head(texts) \o join(Tail(texts))

valuesReversed(d) == [i \in DOMAIN d |-> d[Len(d) + 1 - i]]

\* dict.values(): the values in the dict's order
values(d) == d

\* Func.id / Iface.id: the digest prefix, a tag that depends on the name only
id(name) == <<"md5", name>>

Frag(kind, owner, name) ==
    [kind |-> kind, owner |-> owner, name |-> name, uid |-> <<>>,
     res |-> <<>>, args |-> <<>>, tmpl |-> <<>>, fwd |-> <<>>]

types(args) == [i \in DOMAIN args |-> args[i][1]]
names(args) == [i \in DOMAIN args |-> args[i][2]]

genVirtualFunc(fn) ==
    <<[Frag("virtual_method", <<>>, fn.name) EXCEPT
          !.uid = id(fn.name), !.res = fn.res, !.args = fn.args]>>

genVirtualFuncs(ifc) ==
    join([i \in DOMAIN values(ifc.funcs) |-> genVirtualFunc(values(ifc.funcs)[i])])

genVirtualClass(mod, ifc) ==
    <<[Frag("struct_open", mod.name, ifc.name) EXCEPT !.uid = id(ifc.name)]>>
    \o genVirtualFuncs(ifc)
    \o <<Frag("struct_close", mod.name, ifc.name)>>

genVirtualIfaces(mod, ifaces) ==
    join([i \in DOMAIN values(ifaces) |-> genVirtualClass(mod, values(ifaces)[i])])

genClientFunc(ifc, fn) ==
    <<[Frag("client_method", ifc.name, fn.name) EXCEPT
          !.res = fn.res, !.args = fn.args,
          !.tmpl = <<fn.res>> \o types(fn.args), !.fwd = names(fn.args)]>>

genClientFuncs(ifc) ==
    join([i \in DOMAIN values(ifc.funcs) |-> genClientFunc(ifc, values(ifc.funcs)[i])])

genClientClass(ifc) ==
    <<Frag("client_open", <<>>, ifc.name)>>
    \o genClientFuncs(ifc)
    \o <<Frag("client_close", <<>>, ifc.name)>>

genClientIfaces(ifaces) ==
    join([i \in DOMAIN values(ifaces) |-> genClientClass(values(ifaces)[i])])

genDispatchCase(ifc, fn) ==
    <<[Frag("dispatch_case", <<>>, fn.name) EXCEPT !.tmpl = types(fn.args)]>>

genDispatchCases(ifc) ==
    join([i \in DOMAIN values(ifc.funcs) |-> genDispatchCase(ifc, values(ifc.funcs)[i])])

genDispatchFunc(ifc) ==
    <<Frag("dispatch_open", <<>>, ifc.name)>>
    \o genDispatchCases(ifc)
    \o <<Frag("dispatch_default", <<>>, ifc.name)>>

genDispatchFuncs(ifaces) ==
    join([i \in DOMAIN values(ifaces) |-> genDispatchFunc(values(ifaces)[i])])

genIncludes(includes) ==
    [i \in DOMAIN includes |-> Frag("include", <<>>, includes[i])]

\* main, lines 465-473: the prints to outFile, in order
document(mod) ==
    <<Frag("pragma_once", <<>>, <<>>), Frag("generated_by", <<>>, <<>>),
      Frag("do_not_edit", <<>>, <<>>)>>
    \o genIncludes(mod.includes)
    \o <<Frag("namespace_open", <<>>, mod.name)>>
    \o genVirtualIfaces(mod, mod.ifaces)
    \o genClientIfaces(mod.ifaces)
    \o genDispatchFuncs(mod.ifaces)
    \o <<Frag("namespace_close", <<>>, mod.name)>>

main ==
    /\ stk # <<>> /\ Top.fn = "main"
    /\ CASE Top.pc = 0 ->
              /\ CallThen(Frame("parseModule", <<>>), 1)
              /\ UNCHANGED out
         [] Top.pc = 1 ->
              /\ out' = document(module)
              /\ Return
    /\ UNCHANGED <<_src, scan, retB, tok, err, ast, given>>

(***************************************************************************)
(* The sources main is run on: documents written out from a declared        *)
(* module by the grammar module := "module" namespacedIdent include*        *)
(* iface*, with or without whitespace between and after the elements, and   *)
(* the proper prefixes of one such document.                                *)
(***************************************************************************)
MaxIncludes == 2
MaxFuncs == 2
MaxIfaces == 2

kwModule == <<"m", "o", "d", "u", "l", "e">>
kwInclude == <<"i", "n", "c", "l", "u", "d", "e">>

SeqsUpTo(S, n) == UNION {[1..k -> S] : k \in 0..n}

F0 == [name |-> <<"f">>, args |-> <<>>, res |-> <<"r">>]
F1 == [name |-> <<"f">>, args |-> << <<<<"t">>, <<"a">>>> >>, res |-> <<"u">>]
G2 == [name |-> <<"g">>,
       args |-> << <<<<"t">>, <<"a">>>>, <<<<"u", "2">>, <<"b", "_", "1">>>> >>,
       res |-> <<"r">>]
HB == [name |-> <<"h">>,
       args |-> << <<<<"[", "t", ",", "u", "]">>, <<"a">>>> >>,
       res |-> <<"{", "r", "}">>]
IncLits == {<<"a">>, <<"b", ".", "h">>}

RenderArg(a, sp) == a[2] \o sp \o <<":">> \o sp \o a[1]

RECURSIVE RenderArgs(_, _)
RenderArgs(args, sp) ==
    IF args = <<>> THEN <<>>
    ELSE IF Len(args) = 1 THEN RenderArg(args[1], sp)
    ELSE RenderArg(args[1], sp) \o sp \o <<",">> \o sp \o RenderArgs(Tail(args), sp)

RenderFunc(fn, sp) ==
    fn.name \o sp \o <<"(">> \o sp \o RenderArgs(fn.args, sp) \o sp \o <<")">>
    \o sp \o <<"-", ">">> \o sp \o fn.res

RECURSIVE RenderFuncs(_, _)
RenderFuncs(fs, sp) ==
    IF fs = <<>> THEN <<>>
    ELSE RenderFunc(fs[1], sp) \o sp \o <<",">> \o sp \o RenderFuncs(Tail(fs), sp)

RenderIface(ifc, sp) ==
    ifc.name \o sp \o <<"{">> \o sp \o RenderFuncs(ifc.funcs, sp) \o <<"}">>

RECURSIVE RenderIncludes(_, _, _)
RenderIncludes(incs, sp, nl) ==
    IF incs = <<>> THEN <<>>
    ELSE nl \o kwInclude \o sp \o <<"\"">> \o incs[1] \o <<"\"">>
         \o RenderIncludes(Tail(incs), sp, nl)

RECURSIVE RenderIfaces(_, _, _)
RenderIfaces(ifs, sp, nl) ==
    IF ifs = <<>> THEN <<>>
    ELSE nl \o RenderIface(ifs[1], sp) \o RenderIfaces(Tail(ifs), sp, nl)

RenderDoc(d, style, tail) ==
    LET sp == IF style = "spaced" THEN <<" ">> ELSE <<>>
        nl == IF style = "spaced" THEN <<"\n">> ELSE <<" ">>
    IN  kwModule \o <<" ">> \o d.name \o RenderIncludes(d.includes, sp, nl)
        \o RenderIfaces(d.ifaces, sp, nl) \o tail

Doc(name, incs, ifs) == [name |-> name, includes |-> incs, ifaces |-> ifs]
Decl(name, fs) == [name |-> name, funcs |-> fs]
Input(d, style, tail) ==
    [kind |-> "doc", doc |-> d, style |-> style, tail |-> tail, cut |-> 0]

DocInputs ==
    {Input(Doc(<<"m">>, is, ifs), st, tl) :
        is \in SeqsUpTo(IncLits, MaxIncludes),
        ifs \in {<<>>, <<Decl(<<"I">>, <<F0>>)>>},
        st \in {"compact", "spaced"}, tl \in {<<>>, <<"\n">>}}
    \cup
    {Input(Doc(<<"m">>, <<>>, <<Decl(<<"I">>, fs)>>), st, <<>>) :
        fs \in SeqsUpTo({F0, F1, G2}, MaxFuncs), st \in {"compact", "spaced"}}
    \cup
    {Input(Doc(<<"M", ":", ":", "n">>, <<>>, ifs), "compact", <<>>) :
        ifs \in SeqsUpTo({Decl(n, fs) : n \in {<<"I">>, <<"J">>},
                                        fs \in {<<>>, <<HB>>}}, MaxIfaces)}
    \cup
    {Input(Doc(<<"m">>, <<<<"a">>, <<"b", ".", "h">>>>,
               <<Decl(<<"I">>, <<F1, G2>>), Decl(<<"J">>, <<F0>>)>>), st, tl) :
        st \in {"compact", "spaced"}, tl \in {<<>>, <<"\n">>}}
    \cup
    {Input(Doc(<<"1", "2", "3">>, <<>>, <<>>), "compact", <<>>)}

BaseDoc == Doc(<<"m">>, <<<<"a">>>>, <<Decl(<<"I">>, <<F1, HB>>)>>)
BaseSrc == RenderDoc(BaseDoc, "compact", <<>>)

PrefixInputs ==
    {[kind |-> "prefix", doc |-> BaseDoc, style |-> "compact", tail |-> <<>>,
      cut |-> k] : k \in 0..(Len(BaseSrc) - 1)}

Source(g) ==
    IF g.kind = "doc" THEN RenderDoc(g.doc, g.style, g.tail)
    ELSE SubSeq(BaseSrc, 1, g.cut)

InitRegs ==
    /\ _off = 0 /\ _start = 0 /\ _save = <<>>
    /\ retB = FALSE /\ tok = NoTok /\ err = NoErr
    /\ module = NoModule /\ iface = NoIface /\ f = NoFunc /\ argName = <<>>
    /\ out = <<>>

Init ==
    /\ given \in DocInputs \cup PrefixInputs
    /\ _src = Source(given)
    /\ stk = <<Frame("main", <<>>)>>
    /\ InitRegs

Next ==
    \/ main
    \/ parseModule
    \/ parseIface
    \/ parseFunc
    \/ parseString
    \/ parseQuotes
    \/ parseType
    \/ nextBrackets
    \/ parseNamespacedIdent
    \/ parseIdent
    \/ nextIdent
    \/ expectKeyword
    \/ skipKeyword
    \/ expectSeparator
    \/ skipSeparator
    \/ isSeparator
    \/ skipWhitespace

Spec == Init /\ [][Next]_vars

LiveSpec == Spec /\ WF_vars(Next)

(***************************************************************************)
(* Properties of a run of main.                                            *)
(***************************************************************************)
Done == stk = <<>>
Returned == Done /\ err = NoErr
NamePos == Len(kwModule) + 1

\* the prefixes of BaseSrc that are documents of the grammar: the module
\* line, and the module line with its include, each with or without the
\* whitespace after it
ValidCuts ==
    LET a == Len(RenderDoc(Doc(BaseDoc.name, <<>>, <<>>), "compact", <<>>))
        b == Len(RenderDoc(Doc(BaseDoc.name, BaseDoc.includes, <<>>), "compact", <<>>))
    IN  {a, a + 1, b, b + 1}

Valid(g) ==
    IF g.kind = "doc" THEN isalpha(g.doc.name[1]) ELSE g.cut \in ValidCuts

NamesOf(decls) == {decls[i].name : i \in DOMAIN decls}
Distinct(decls) == Cardinality(NamesOf(decls)) = Len(decls)
NoRedecl(d) ==
    /\ Distinct(d.ifaces)
    /\ \A i \in DOMAIN d.ifaces : Distinct(d.ifaces[i].funcs)

LastDecl(decls, name) ==
    decls[CHOOSE i \in DOMAIN decls :
              /\ decls[i].name = name
              /\ \A j \in DOMAIN decls : j > i => decls[j].name # name]

RECURSIVE FirstNames(_)
FirstNames(decls) ==
    IF decls = <<>> THEN <<>>
    ELSE LET r == FirstNames(SubSeq(decls, 1, Len(decls) - 1))
             n == decls[Len(decls)].name
         IN  IF \E i \in DOMAIN r : r[i] = n THEN r ELSE Append(r, n)

\* C1: a document of the grammar (no name declared twice) parses without a
\* ScanError, and the Module returned has the declared name, the includes in
\* source order, the interfaces in declaration order and in each its
\* functions in declaration order with their (type, name) arguments and
\* result type.
C1_ValidDocumentParses ==
    (Done /\ given.kind = "doc" /\ Valid(given) /\ NoRedecl(given.doc))
        => (err = NoErr /\ module = given.doc)

\* C2: when the text after the keyword module does not begin with an
\* alphabetic character, parseModule raises "Expected identifier" at the
\* offset of that character and returns no Module.
C2_NumericNameRaises ==
    (Done /\ given.kind = "doc" /\ ~isalpha(given.doc.name[1]))
        => (err.what = "Expected identifier" /\ err.where = NamePos)

\* C5: on a source that is not a document of the grammar parseModule raises
\* a ScanError and returns no Module.
C5_MalformedRaises ==
    (Done /\ ~Valid(given)) => (err # NoErr /\ err.where >= 0 /\ out = <<>>)

\* C10: every save() is matched by a restore(): the save stack is empty
\* when parseModule has returned or raised.
C10_SaveStackBalanced ==
    Done => _save = <<>>

\* the fragments of out from the one of kind open named name up to the next
\* one of kind close
Block(open, close, name) ==
    LET i == CHOOSE k \in DOMAIN out : out[k].kind = open /\ out[k].name = name
        j == CHOOSE k \in DOMAIN out :
                 /\ k > i /\ out[k].kind = close
                 /\ \A l \in (i + 1)..(k - 1) : out[l].kind # close
    IN  SubSeq(out, i, j)

Count(frags, kind, name) ==
    Cardinality({k \in DOMAIN frags : frags[k].kind = kind /\ frags[k].name = name})

\* C7: an interface that declares a function name twice parses without a
\* ScanError; its mapping holds one entry per distinct name, the entry of a
\* name being its last declaration, and the generator emits one virtual
\* method, one client method and one dispatch case for the name.
C7_LastDeclarationWins ==
    /\ (Done /\ given.kind = "doc" /\ Valid(given) /\ given.doc.ifaces # <<>>)
           => err = NoErr
    /\ (Returned /\ given.kind = "doc") =>
        \A k \in DOMAIN module.ifaces :
            LET e == module.ifaces[k]
                d == LastDecl(given.doc.ifaces, e.name)
            IN  /\ e.name \in NamesOf(given.doc.ifaces)
                /\ Len(e.funcs) = Cardinality(NamesOf(d.funcs))
                /\ \A n \in NamesOf(d.funcs) :
                     /\ \E i \in DOMAIN e.funcs : e.funcs[i] = LastDecl(d.funcs, n)
                     /\ Count(Block("struct_open", "struct_close", e.name),
                              "virtual_method", n) = 1
                     /\ Count(Block("client_open", "client_close", e.name),
                              "client_method", n) = 1
                     /\ Count(Block("dispatch_open", "dispatch_default", e.name),
                              "dispatch_case", n) = 1

C7_Witness ==
    /\ Returned /\ given.kind = "doc"
    /\ Len(given.doc.ifaces) = 1
    /\ given.doc.ifaces[1].funcs = <<F0, F1>>
    /\ module.ifaces[1].funcs = <<F1>>
    /\ out # <<>>

Skel(frags) == [i \in DOMAIN frags |-> <<frags[i].kind, frags[i].name>>]

ExpFuncs(kind, decls) ==
    LET ns == FirstNames(decls) IN [i \in DOMAIN ns |-> <<kind, ns[i]>>]

RECURSIVE ExpBlocks(_, _, _, _, _)
ExpBlocks(open, kind, close, decls, ns) ==
    IF ns = <<>> THEN <<>>
    ELSE << <<open, ns[1]>> >>
         \o ExpFuncs(kind, LastDecl(decls, ns[1]).funcs)
         \o << <<close, ns[1]>> >>
         \o ExpBlocks(open, kind, close, decls, Tail(ns))

ExpSkel(d) ==
    LET ns == FirstNames(d.ifaces) IN
    << <<"pragma_once", <<>>>>, <<"generated_by", <<>>>>, <<"do_not_edit", <<>>>> >>
    \o [i \in DOMAIN d.includes |-> <<"include", d.includes[i]>>]
    \o << <<"namespace_open", d.name>> >>
    \o ExpBlocks("struct_open", "virtual_method", "struct_close", d.ifaces, ns)
    \o ExpBlocks("client_open", "client_method", "client_close", d.ifaces, ns)
    \o ExpBlocks("dispatch_open", "dispatch_case", "dispatch_default", d.ifaces, ns)
    \o << <<"namespace_close", d.name>> >>

\* C8: the emitted document is the preamble with one include directive per
\* include in order, then the virtual interface of every interface, then the
\* client of every interface, then the dispatch of every interface, then the
\* closing namespace marker; interfaces and, in each fragment, functions come
\* in declaration order (a name declared twice at the place of its first
\* declaration), and a dispatch switch ends with its default branch.
C8_EmissionOrder ==
    Returned =>
        /\ Skel(out) = ExpSkel(module)
        /\ given.kind = "doc" => Skel(out) = ExpSkel(given.doc)

C8_Witness ==
    /\ Returned /\ given.kind = "doc"
    /\ Len(module.includes) = 2 /\ Len(module.ifaces) = 2
    /\ Len(module.ifaces[1].funcs) = 2
    /\ Len(out) > 10

\* the positions at which a function evaluates the condition of a loop
LoopHeads ==
    {<<"skipWhitespace", 0>>, <<"nextIdent", 0>>, <<"parseIdent", 2>>,
     <<"parseNamespacedIdent", 1>>, <<"nextBrackets", 1>>, <<"parseType", 1>>,
     <<"parseQuotes", 1>>, <<"parseString", 2>>, <<"parseFunc", 3>>,
     <<"parseIface", 3>>, <<"parseModule", 3>>, <<"parseModule", 6>>}

\* the running frame is back at its loop condition with the cursor further
\* than at the evaluation before
LoopAdvanced ==
    (stk # <<>> /\ <<Top.fn, Top.pc>> \in LoopHeads) => Top.at < _off

\* C9: a run of parseModule ends, by returning or by raising, on every
\* source; a loop of the parser that comes back to its condition without
\* raising has moved the cursor forward.
C9_Terminates ==
    /\ []LoopAdvanced
    /\ <>Done

C9_Witness ==
    /\ Done /\ _off = Len(_src) /\ Len(_src) > 40
    /\ given.kind = "doc"
    /\ Len(module.includes) = 2 /\ Len(module.ifaces) = 2

(***************************************************************************)
(* The scanner's matching methods, called in any order by a client on a     *)
(* short source.                                                           *)
(***************************************************************************)
MaxScanLen == 3
ScanAlphabet == {" ", "a", ","}
ScanLits == {<<",">>, <<"a">>, <<"a", ",">>}
ScanCalls == {"skipWhitespace", "skipSeparator", "isSeparator", "skipKeyword",
              "isKeyword"}

\* a caller of class Scan: one call of a method with a literal; the cursor and
\* the depth of the save stack on entry go to given
client ==
    /\ At("client", 0)
    /\ \E op \in {"next", "skipStr", "isStr"} \cup ScanCalls, s \in ScanLits :
         /\ given' = [kind |-> "call", op |-> op, lit |-> s, off |-> _off,
                      depth |-> Len(_save)]
         /\ CASE op = "next" ->
                   /\ _off' = next(_off)
                   /\ UNCHANGED <<_save, retB, stk>>
              [] op = "skipStr" ->
                   /\ _off' = skipStr(s, _off).off
                   /\ retB' = skipStr(s, _off).ok
                   /\ UNCHANGED <<_save, stk>>
              [] op = "isStr" ->
                   /\ _off' = isStr(s, _off, _save).off
                   /\ _save' = isStr(s, _off, _save).save
                   /\ retB' = isStr(s, _off, _save).ok
                   /\ UNCHANGED stk
              [] OTHER ->
                   /\ CallThen(Frame(op, s), 0)
                   /\ UNCHANGED <<_off, _save, retB>>
    /\ UNCHANGED <<_src, _start, tok, err, ast, out>>

ScanInit ==
    /\ _src \in SeqsUpTo(ScanAlphabet, MaxScanLen)
    /\ given = [kind |-> "none", op |-> "none", lit |-> <<>>, off |-> 0, depth |-> 0]
    /\ stk = <<Frame("client", <<>>)>>
    /\ InitRegs

ScanNext ==
    \/ client
    \/ skipWhitespace
    \/ skipSeparator
    \/ isSeparator
    \/ skipKeyword
    \/ isKeyword

ScanSpec == ScanInit /\ [][ScanNext]_vars

\* the call of op the client made last has returned
Called(op) == stk # <<>> /\ Top.fn = "client" /\ given.op = op

RemainingStartsWith(o, s) ==
    /\ o + Len(s) <= Len(_src)
    /\ SubSeq(_src, o + 1, o + Len(s)) = s

\* C4: skipStr, skipSeparator and skipKeyword leave the cursor where it was
\* when they return false; isStr, isSeparator and isKeyword leave it where it
\* was whatever they return; skipStr returns true exactly when the remaining
\* input starts with the literal, and has then advanced by its length.
C4_FailedMatchKeepsCursor ==
    /\ \A op \in {"skipStr", "skipSeparator", "skipKeyword"} :
         (Called(op) /\ ~retB) => _off = given.off
    /\ \A op \in {"isStr", "isSeparator", "isKeyword"} :
         Called(op) => _off = given.off
    /\ Called("skipStr") =>
         /\ retB <=> RemainingStartsWith(given.off, given.lit)
         /\ retB => _off = given.off + Len(given.lit)

C4_Witness ==
    /\ Called("skipKeyword") /\ ~retB
    /\ given.lit = <<"a">> /\ given.off = 0 /\ _off = 0
    /\ _src = <<" ", "a", "a">>

(***************************************************************************)
(* parseType on a type expression followed by its terminator.              *)
(***************************************************************************)
MaxTypeLen == 5
TypeAlphabet == {"a", ",", "(", ")", "[", "]"}
Closers == {BRAKETS[c] : c \in DOMAIN BRAKETS}

\* the text from position i on closes the groups open (innermost first) and
\* opens only groups it closes, with no "," or ")" outside every group
RECURSIVE Nests(_, _, _)
Nests(text, i, open) ==
    IF i > Len(text) THEN open = <<>>
    ELSE IF text[i] \in DOMAIN BRAKETS
         THEN Nests(text, i + 1, <<BRAKETS[text[i]]>> \o open)
    ELSE IF text[i] \in Closers
         THEN open # <<>> /\ Head(open) = text[i] /\ Nests(text, i + 1, Tail(open))
    ELSE (text[i] = "," => open # <<>>) /\ Nests(text, i + 1, open)

SpecExample == <<"M", "a", "p", "<", "s", ",", " ", "(", "i", ",", " ", "i", ")", ">">>

TypeInputs ==
    {[kind |-> "type", text |-> t, term |-> c] :
        t \in {x \in SeqsUpTo(TypeAlphabet, MaxTypeLen) : x # <<>> /\ Nests(x, 1, <<>>)},
        c \in {",", ")"}}
    \cup {[kind |-> "type", text |-> SpecExample, term |-> ","]}

TypeInit ==
    /\ given \in TypeInputs
    /\ _src = given.text \o <<given.term>>
    /\ stk = <<Frame("parseType", <<>>)>>
    /\ InitRegs

TypeNext ==
    \/ parseType
    \/ nextBrackets
    \/ expectSeparator
    \/ skipSeparator
    \/ isSeparator
    \/ skipWhitespace

TypeSpec == TypeInit /\ [][TypeNext]_vars

\* C3: parseType returns the whole type expression: the token ends at the
\* first "," or ")" outside every bracketed group, which stays unconsumed.
C3_TypeEndsAtTopLevel ==
    (Done /\ given.kind = "type") =>
        /\ err = NoErr
        /\ tok.text = given.text
        /\ _off = Len(given.text)

(***************************************************************************)
(* parseString on a literal: n quote characters, a body, the same n quote   *)
(* characters, and what follows the literal.                               *)
(***************************************************************************)
MaxQuotes == 2
MaxBody == 3
StrAlphabet == {"a", "\\", "'", "\""}

Rep(c, n) == [i \in 1..n |-> c]

\* the body of a literal with a single quote: characters other than the
\* quote and the backslash, and pairs of a backslash and any character
RECURSIVE Escaped(_, _, _)
Escaped(body, i, q) ==
    IF i > Len(body) THEN TRUE
    ELSE IF body[i] = "\\" THEN i + 1 <= Len(body) /\ Escaped(body, i + 2, q)
    ELSE body[i] # q /\ Escaped(body, i + 1, q)

\* the body of a raw literal: the delimiter does not occur before its end
NoDelimiterInside(body, n, q) ==
    LET t == body \o Rep(q, n) IN
    \A i \in 0..(Len(body) - 1) : SubSeq(t, i + 1, i + n) # Rep(q, n)

IsBody(body, n, q) ==
    IF n = 1 THEN Escaped(body, 1, q) ELSE NoDelimiterInside(body, n, q)

StringInputs ==
    {[kind |-> "string", n |-> n, q |-> q, body |-> b, rest |-> r] :
        n \in 1..MaxQuotes, q \in {"'", "\""},
        b \in SeqsUpTo(StrAlphabet, MaxBody), r \in {<<>>, <<" ", "I">>}}

StringInit ==
    /\ given \in {g \in StringInputs : IsBody(g.body, g.n, g.q)}
    /\ _src = Rep(given.q, given.n) \o given.body \o Rep(given.q, given.n) \o given.rest
    /\ stk = <<Frame("parseString", <<>>)>>
    /\ InitRegs

StringNext ==
    \/ parseString
    \/ parseQuotes

StringSpec == StringInit /\ [][StringNext]_vars

BodyReturned ==
    /\ err = NoErr
    /\ tok.text = given.body
    /\ _off = 2 * given.n + Len(given.body)

\* C6 as stated: for every literal of n >= 1 quote characters, a body and the
\* same delimiter, parseString returns the body and leaves the cursor just
\* past the closing delimiter.
C6_AnyBodyRoundTrips ==
    (Done /\ given.kind = "string") => BodyReturned

\* C6: for a literal of n >= 1 quote characters, a body that is not empty and
\* does not begin with the quote character, and the same delimiter,
\* parseString returns the body (an escape pair of a single-quoted literal
\* kept as it is) and leaves the cursor just past the closing delimiter.
C6_BodyRoundTrips ==
    (Done /\ given.kind = "string" /\ given.body # <<>> /\ given.body[1] # given.q)
        => BodyReturned

C6_Witness ==
    /\ Done /\ given.kind = "string"
    /\ given.n = 1 /\ given.q = "\""
    /\ given.body = <<"a", "\\", "\"">>
    /\ tok.text = given.body

====
